---- MODULE Spec2Model ----
(***************************************************************************)
(* A model of gofastcaddy: the client of a remote, path-addressable        *)
(* configuration tree (the Caddy admin API), its path codec, its path      *)
(* initializer, its route composer and its TLS/PKI policy builder.         *)
(*                                                                         *)
(* Strings.  A string that the code splits, trims or joins (a path) is a   *)
(* sequence of tokens: the separator "/" or a chunk that holds no          *)
(* separator; two chunks are never adjacent.  Every other string (a key,   *)
(* an ID, a host, a dial target) is a TLA+ string, concatenated with \o.   *)
(*                                                                         *)
(* JSON values are tagged records: null, bool, str, obj (a function from   *)
(* a finite set of keys to values) and arr (a sequence of values).         *)
(***************************************************************************)
EXTENDS Integers, Sequences, FiniteSets, TLC

VARIABLES cfg, last, pure, callers

vars == <<cfg, last, pure, callers>>

(***************************************************************************)
(* Bounds                                                                  *)
(***************************************************************************)
MaxRoutes == 2

MaxSubs == 1

MaxReq == 15

MaxFails == 1

MaxSkip == 1

MaxKeys == 3

MaxPathLen == 5

\* The most nested routes of a wildcard route that concurrent callers build.
MaxConcSubs == 3

(***************************************************************************)
(* JSON values                                                             *)
(***************************************************************************)
Null == [k |-> "null"]

Absent == [k |-> "absent"]

Str(s) == [k |-> "str", s |-> s]

Bool(b) == [k |-> "bool", b |-> b]

Obj(f) == [k |-> "obj", f |-> f]

Arr(q) == [k |-> "arr", q |-> q]

Empty == [x \in {} |-> Null]

EmptyObj == Obj(Empty)

Field(cond, key, val) == IF cond THEN key :> val ELSE Empty

IsObj(v) == v.k = "obj"

IsArr(v) == v.k = "arr"

(***************************************************************************)
(* strings.Trim, strings.Split, strings.Join on token sequences            *)
(***************************************************************************)
RECURSIVE TrimLeft(_)
TrimLeft(p) ==
  IF p # <<>> /\ Head(p) = "/" THEN TrimLeft(Tail(p)) ELSE p

RECURSIVE TrimRight(_)
TrimRight(p) ==
  IF p # <<>> /\ p[Len(p)] = "/" THEN TrimRight(SubSeq(p, 1, Len(p) - 1)) ELSE p

Trim(p) == TrimRight(TrimLeft(p))

RECURSIVE ConcatTokens(_)
ConcatTokens(seg) ==
  IF seg = <<>> THEN "" ELSE Head(seg) \o ConcatTokens(Tail(seg))

\* strings.Split(p, "/"): one more piece than there are separators.
RECURSIVE SplitFrom(_, _)
SplitFrom(p, cur) ==
  IF p = <<>> THEN <<ConcatTokens(cur)>>
  ELSE IF Head(p) = "/" THEN <<ConcatTokens(cur)>> \o SplitFrom(Tail(p), <<>>)
  ELSE SplitFrom(Tail(p), Append(cur, Head(p)))

Split(p) == SplitFrom(p, <<>>)

Token(s) == IF s = "" THEN <<>> ELSE <<s>>

RECURSIVE Join(_)
Join(keys) ==
  IF keys = <<>> THEN <<>>
  ELSE IF Len(keys) = 1 THEN Token(keys[1])
  ELSE Token(keys[1]) \o <<"/">> \o Join(Tail(keys))

(***************************************************************************)
(* internal/config: PathToKeys, KeysToPath                                 *)
(***************************************************************************)
\* PathToKeys without the trim of the leading and trailing separators.
PathToKeysNoTrim(path) ==
  IF path = <<>> THEN <<>> ELSE Split(path)

PathToKeys(path) ==
  LET t == Trim(path)
  IN  IF t = <<>> THEN <<>> ELSE Split(t)

KeysToPath(keys) ==
  IF Len(keys) = 0 THEN <<"/">> ELSE <<"/">> \o Join(keys)

\* NestedSetDict without the overwrite of a non-container on the way.
RECURSIVE SetInKeep(_, _, _)
SetInKeep(current, value, keys) ==
  IF Len(keys) = 1 THEN Obj((keys[1] :> value) @@ current.f)
  ELSE LET key == Head(keys)
           held == IF key \in DOMAIN current.f THEN current.f[key] ELSE Null
           made == IF held = Null THEN EmptyObj ELSE held
       IN  IF IsObj(made)
           THEN Obj((key :> SetInKeep(made, value, Tail(keys))) @@ current.f)
           ELSE current

\* The walk of NestedSetDict from the map current: a key that is missing or
\* holds nil gets a new map, a key that holds a non-map gets a new map, the
\* last key gets the value.
RECURSIVE SetIn(_, _, _)
SetIn(current, value, keys) ==
  IF Len(keys) = 1 THEN Obj((keys[1] :> value) @@ current.f)
  ELSE LET key == Head(keys)
           held == IF key \in DOMAIN current.f THEN current.f[key] ELSE Null
           made == IF held = Null THEN EmptyObj ELSE held
           nested == IF IsObj(made) THEN made ELSE EmptyObj
       IN  Obj((key :> SetIn(nested, value, Tail(keys))) @@ current.f)

NestedSetDict(dict, value, keys) ==
  IF Len(keys) = 0 THEN dict
  ELSE SetIn(IF dict = Null THEN EmptyObj ELSE dict, value, keys)

(***************************************************************************)
(* The remote tree (spec section 6, RemoteTreeClient).  A request is       *)
(* served atomically.  read fails when the path is absent; write with      *)
(* POST appends when the target is a list and sets the value otherwise;    *)
(* a path ending in "..." appends the elements of the payload.             *)
(***************************************************************************)
IdxStr == <<"0", "1", "2", "3", "4", "5">>

IsIndex(s) == \E i \in 1..Len(IdxStr) : IdxStr[i] = s

IndexOf(s) == CHOOSE i \in 1..Len(IdxStr) : IdxStr[i] = s

RECURSIVE Lookup(_, _)
Lookup(v, ks) ==
  IF ks = <<>> THEN v
  ELSE IF IsObj(v)
       THEN IF Head(ks) \in DOMAIN v.f THEN Lookup(v.f[Head(ks)], Tail(ks)) ELSE Absent
  ELSE IF IsArr(v)
       THEN IF IsIndex(Head(ks)) /\ IndexOf(Head(ks)) <= Len(v.q)
            THEN Lookup(v.q[IndexOf(Head(ks))], Tail(ks)) ELSE Absent
  ELSE Absent

Exists(v, ks) == Lookup(v, ks) # Absent

\* The tree with x stored at ks; the parent of ks is an object or ks is an
\* index of an existing list element.
RECURSIVE StoreAt(_, _, _)
StoreAt(v, ks, x) ==
  IF ks = <<>> THEN x
  ELSE IF IsObj(v)
       THEN LET h == Head(ks)
                sub == IF h \in DOMAIN v.f THEN v.f[h] ELSE Absent
            IN  Obj((h :> StoreAt(sub, Tail(ks), x)) @@ v.f)
  ELSE IF IsArr(v)
       THEN Arr([v.q EXCEPT ![IndexOf(Head(ks))] = StoreAt(@, Tail(ks), x)])
  ELSE v

RemoveIndex(q, i) == SubSeq(q, 1, i - 1) \o SubSeq(q, i + 1, Len(q))

RECURSIVE RemoveAt(_, _)
RemoveAt(v, ks) ==
  IF Len(ks) = 1
  THEN IF IsObj(v) THEN Obj([key \in DOMAIN v.f \ {ks[1]} |-> v.f[key]])
       ELSE Arr(RemoveIndex(v.q, IndexOf(ks[1])))
  ELSE IF IsObj(v)
       THEN Obj([v.f EXCEPT ![Head(ks)] = RemoveAt(@, Tail(ks))])
       ELSE Arr([v.q EXCEPT ![IndexOf(Head(ks))] = RemoveAt(@, Tail(ks))])

OwnID(v, id) == IsObj(v) /\ "@id" \in DOMAIN v.f /\ v.f["@id"] = Str(id)

RECURSIVE CountID(_, _)
CountID(v, id) ==
  LET RECURSIVE SumObj(_)
      SumObj(S) == IF S = {} THEN 0
                   ELSE LET key == CHOOSE key \in S : TRUE
                        IN  CountID(v.f[key], id) + SumObj(S \ {key})
      RECURSIVE SumArr(_)
      SumArr(i) == IF i = 0 THEN 0 ELSE CountID(v.q[i], id) + SumArr(i - 1)
  IN  IF IsObj(v) THEN (IF OwnID(v, id) THEN 1 ELSE 0) + SumObj(DOMAIN v.f)
      ELSE IF IsArr(v) THEN SumArr(Len(v.q))
      ELSE 0

\* The path of the object that carries the ID (the last one in a list when
\* the ID occurs more than once), or Absent.
RECURSIVE FindID(_, _)
RECURSIVE FindInObj(_, _, _)
RECURSIVE FindInArr(_, _, _)
FindID(v, id) ==
  IF OwnID(v, id) THEN [k |-> "path", p |-> <<>>]
  ELSE IF IsObj(v) THEN FindInObj(v.f, DOMAIN v.f, id)
  ELSE IF IsArr(v) THEN FindInArr(v.q, Len(v.q), id)
  ELSE Absent

FindInObj(f, S, id) ==
  IF S = {} THEN Absent
  ELSE LET key == CHOOSE key \in S : TRUE
           r == FindID(f[key], id)
       IN  IF r # Absent THEN [k |-> "path", p |-> <<key>> \o r.p]
           ELSE FindInObj(f, S \ {key}, id)

FindInArr(q, i, id) ==
  IF i = 0 THEN Absent
  ELSE LET r == FindID(q[i], id)
       IN  IF r # Absent THEN [k |-> "path", p |-> <<IdxStr[i]>> \o r.p]
           ELSE FindInArr(q, i - 1, id)

HasEllipsis(ks) == ks # <<>> /\ ks[Len(ks)] = "..."

Front(ks) == SubSeq(ks, 1, Len(ks) - 1)

\* The answer to one request: st is "ok" or "status" (a non-2xx answer),
\* cfg the tree afterwards, val the body of a read.
ServeGet(tree, ks) ==
  LET v == Lookup(tree, ks)
  IN  [st |-> IF v = Absent THEN "status" ELSE "ok", cfg |-> tree, val |-> v]

ServePost(tree, ks0, x) ==
  LET ell == HasEllipsis(ks0)
      ks == IF ell THEN Front(ks0) ELSE ks0
      fail == [st |-> "status", cfg |-> tree, val |-> Null]
      done(t) == [st |-> "ok", cfg |-> t, val |-> Null]
  IN  IF ks = <<>> THEN done(x)
      ELSE LET parent == Lookup(tree, Front(ks))
               target == Lookup(tree, ks)
           IN  IF ~IsObj(parent) THEN fail
               ELSE IF IsArr(target)
                    THEN IF ell
                         THEN IF IsArr(x)
                              THEN done(StoreAt(tree, ks, Arr(target.q \o x.q)))
                              ELSE fail
                         ELSE done(StoreAt(tree, ks, Arr(Append(target.q, x))))
               ELSE done(StoreAt(tree, ks, x))

ServeDelete(tree, ks) ==
  IF ks = <<>> \/ ~Exists(tree, ks)
  THEN [st |-> "status", cfg |-> tree, val |-> Null]
  ELSE [st |-> "ok", cfg |-> RemoveAt(tree, ks), val |-> Null]

\* /id/<id>/<rest> addresses <rest> inside the object that carries <id>.
ResolveID(tree, ks) ==
  IF ks = <<>> THEN Absent
  ELSE LET r == FindID(tree, ks[1])
       IN  IF r = Absent THEN Absent ELSE [k |-> "path", p |-> r.p \o Tail(ks)]

Serve(tree, m, api, path, x) ==
  LET ks0 == PathToKeys(path)
      r == IF api = "id" THEN ResolveID(tree, ks0) ELSE [k |-> "path", p |-> ks0]
  IN  IF r = Absent THEN [st |-> "status", cfg |-> tree, val |-> Null]
      ELSE IF m = "GET" THEN ServeGet(tree, r.p)
      ELSE IF m = "POST" THEN ServePost(tree, r.p, x)
      ELSE ServeDelete(tree, r.p)

(***************************************************************************)
(* internal/api: Client.  A world w is [cfg, log, err]: the remote tree,   *)
(* the requests of the running call, and the error the last step           *)
(* returned ("nil" for none).  F is the set of request ordinals of the     *)
(* call that end in a transport failure (the request is not served).       *)
(***************************************************************************)
\* The one element of a singleton set: in Only({e(x) : x \in {v}}) the value
\* v is computed once and e reads it as x.
Only(S) == CHOOSE x \in S : TRUE

World(tree) == [cfg |-> tree, log |-> <<>>, err |-> "nil", val |-> Null]

\* GetIDURL / GetConfigURL: a leading and a trailing separator are added
\* when missing.
NormalizeURLPath(path) ==
  LET a == IF path # <<>> /\ Head(path) = "/" THEN path ELSE <<"/">> \o path
  IN  IF a[Len(a)] = "/" THEN a ELSE Append(a, "/")

\* HTTPClient.Do and the status check that follows it.
Do(w, F, m, api, path, x) ==
  LET url == NormalizeURLPath(path)
      keys == PathToKeys(url)
      entry(st) == [m |-> m, api |-> api, keys |-> keys, st |-> st]
      Sent(v) ==
        IF Len(v.log) + 1 \in F
        THEN [cfg |-> v.cfg, log |-> Append(v.log, entry("transport")),
              err |-> "transport", val |-> Null]
        ELSE Only({ [cfg |-> r.cfg, log |-> Append(v.log, entry(r.st)),
                     err |-> IF r.st = "ok" THEN "nil" ELSE "status",
                     val |-> r.val] :
                    r \in {Serve(v.cfg, m, api, url, x)} })
  IN  Only({ Sent(v) : v \in {w} })

\* The body is decoded into a map: a JSON object or null decodes, anything
\* else is a decoding error.
DecodeMap(r) ==
  IF r.err = "nil" /\ r.val.k \notin {"obj", "null"}
  THEN [r EXCEPT !.err = "decode"] ELSE r

GetByID(w, F, path) == DecodeMap(Do(w, F, "GET", "id", path, Null))

GetConfig(w, F, path) == DecodeMap(Do(w, F, "GET", "config", path, Null))

\* HasID / HasPath return a bool in val: the error, whatever it is, is
\* dropped.
HasID(w, F, id) ==
  LET r == GetByID(w, F, id)
  IN  [r EXCEPT !.val = (r.err = "nil"), !.err = "nil"]

HasPath(w, F, path) ==
  LET r == GetConfig(w, F, path)
  IN  [r EXCEPT !.val = (r.err = "nil"), !.err = "nil"]

PutByID(w, F, data, path, method) == Do(w, F, method, "id", path, data)

PutConfig(w, F, data, path, method) == Do(w, F, method, "config", path, data)

DeleteByID(w, F, id) == Do(w, F, "DELETE", "id", id, Null)

(***************************************************************************)
(* internal/config: Manager.InitPath                                       *)
(***************************************************************************)
\* InitPathLoop that writes the levels below skip as well.
RECURSIVE InitPathLoopNoSkip(_, _, _, _, _)
InitPathLoopNoSkip(w, F, keys, skip, i) ==
  IF i >= Len(keys) THEN [w EXCEPT !.err = "nil"]
  ELSE LET currentPath == KeysToPath(SubSeq(keys, 1, i + 1))
           r == PutConfig(w, F, EmptyObj, currentPath, "POST")
       IN  IF r.err # "nil" THEN r
           ELSE InitPathLoopNoSkip(r, F, keys, skip, i + 1)

\* InitPathLoop that goes on to the deeper levels after a failed request and
\* returns the first error at the end.
RECURSIVE InitPathLoopGoOn(_, _, _, _, _)
InitPathLoopGoOn(w, F, keys, skip, i) ==
  IF i >= Len(keys) THEN w
  ELSE IF i < skip THEN InitPathLoopGoOn(w, F, keys, skip, i + 1)
  ELSE LET currentPath == KeysToPath(SubSeq(keys, 1, i + 1))
           r == PutConfig(w, F, EmptyObj, currentPath, "POST")
           e == IF w.err # "nil" THEN w.err ELSE r.err
       IN  InitPathLoopGoOn([r EXCEPT !.err = e], F, keys, skip, i + 1)

RECURSIVE InitPathLoop(_, _, _, _, _)
InitPathLoop(w, F, keys, skip, i) ==
  IF i >= Len(keys) THEN [w EXCEPT !.err = "nil"]
  ELSE IF i < skip THEN InitPathLoop(w, F, keys, skip, i + 1)
  ELSE LET currentPath == KeysToPath(SubSeq(keys, 1, i + 1))
           r == PutConfig(w, F, EmptyObj, currentPath, "POST")
       IN  IF r.err # "nil" THEN r
           ELSE InitPathLoop(r, F, keys, skip, i + 1)

InitPath(w, F, path, skip) == InitPathLoop(w, F, PathToKeys(path), skip, 0)

(***************************************************************************)
(* pkg/types: the JSON encoding of the entity structs (omitempty drops an  *)
(* empty string and an empty or nil list)                                  *)
(***************************************************************************)
StrList(q) == Arr([i \in 1..Len(q) |-> Str(q[i])])

Upstream(dial) == Obj("dial" :> Str(dial))

RouteMatch(host, path) ==
  Obj(Field(Len(host) > 0, "host", StrList(host))
      @@ Field(Len(path) > 0, "path", StrList(path)))

Handler(handler, upstreams, routes) ==
  Obj(("handler" :> Str(handler))
      @@ Field(Len(upstreams) > 0, "upstreams", Arr(upstreams))
      @@ Field(Len(routes) > 0, "routes", Arr(routes)))

Route(id, match, handle, terminal) ==
  Obj(Field(id # "", "@id", Str(id))
      @@ ("match" :> Arr(match))
      @@ ("handle" :> Arr(handle))
      @@ ("terminal" :> Bool(terminal)))

HTTPServer(listen, routes, protocols) ==
  Obj(("listen" :> StrList(listen))
      @@ ("routes" :> Arr(routes))
      @@ Field(Len(protocols) > 0, "protocols", StrList(protocols)))

PKIConfig(installTrust) == Obj("install_trust" :> Bool(installTrust))

(***************************************************************************)
(* internal/tls: Manager                                                   *)
(***************************************************************************)
AutomationPath == <<"/", "apps", "/", "tls", "/", "automation">>

GetACMEConfig(token) ==
  LET provider == Obj(("name" :> Str("cloudflare")) @@ ("api_token" :> Str(token)))
      challenges == Obj("dns" :> Obj("provider" :> provider))
  IN  Obj(("module" :> Str("acme")) @@ ("challenges" :> challenges))

InternalIssuer == Obj("module" :> Str("internal"))

Policies(issuer) == Arr(<<Obj("issuers" :> Arr(<<issuer>>))>>)

\* The body AddTLSInternalConfig and AddACMEConfig share.
AddIssuerConfig(w, F, issuer) ==
  LET h == HasPath(w, F, AutomationPath)
  IN  IF h.val THEN [h EXCEPT !.err = "nil"]
      ELSE LET r1 == PutConfig(h, F, EmptyObj, <<"/">>, "POST")
           IN  IF r1.err # "nil" THEN r1
               ELSE LET r2 == InitPath(r1, F, AutomationPath, 0)
                    IN  IF r2.err # "nil" THEN r2
                        ELSE PutConfig(r2, F, Policies(issuer),
                                       AutomationPath \o <<"/", "policies">>, "POST")

AddTLSInternalConfig(w, F) == AddIssuerConfig(w, F, InternalIssuer)

AddACMEConfig(w, F, cfToken) == AddIssuerConfig(w, F, GetACMEConfig(cfToken))

pkiPath == <<"/", "apps", "/", "pki", "/", "certificate_authorities", "/", "local">>

\* SetupPKITrust that takes the absent flag for false.
SetupPKITrustNilFalse(w, F, installTrust) ==
  LET r == InitPath(w, F, pkiPath, 1)
  IN  IF r.err # "nil" THEN r
      ELSE PutConfig(r, F, PKIConfig(installTrust = "true"), pkiPath, "POST")

\* installTrust is "nil", "true" or "false".
SetupPKITrust(w, F, installTrust) ==
  IF installTrust = "nil" THEN [w EXCEPT !.err = "nil"]
  ELSE LET r == InitPath(w, F, pkiPath, 1)
       IN  IF r.err # "nil" THEN r
           ELSE PutConfig(r, F, PKIConfig(installTrust = "true"), pkiPath, "POST")

(***************************************************************************)
(* internal/routes: Manager                                                *)
(***************************************************************************)
ServersPath == <<"/", "apps", "/", "http", "/", "servers">>

RoutesPath == ServersPath \o <<"/", "srv0", "/", "routes">>

InitRoutes(w, F, serverName, skip) ==
  LET h == HasPath(w, F, ServersPath)
  IN  IF h.val THEN [h EXCEPT !.err = "nil"]
      ELSE LET r == InitPath(h, F, ServersPath, skip)
           IN  IF r.err # "nil" THEN r
               ELSE LET serverConfig == HTTPServer(<<":80", ":443">>, <<>>, <<"h1", "h2">>)
                        serverPath == ServersPath \o <<"/">> \o Token(serverName)
                    IN  PutConfig(r, F, serverConfig, serverPath, "POST")

\* AddRoute that appends only when no object of the tree carries the ID of
\* the route.
AddRouteOnce(w, F, route) ==
  IF "@id" \in DOMAIN route.f /\ FindID(w.cfg, route.f["@id"].s) # Absent
  THEN [w EXCEPT !.err = "nil"]
  ELSE PutConfig(w, F, route, RoutesPath, "POST")

AddRoute(w, F, route) == PutConfig(w, F, route, RoutesPath, "POST")

ReverseProxyRoute(fromHost, toURL) ==
  Route(fromHost,
        <<RouteMatch(<<fromHost>>, <<>>)>>,
        <<Handler("reverse_proxy", <<Upstream(toURL)>>, <<>>)>>,
        TRUE)

AddReverseProxy(w, F, fromHost, toURL) ==
  LET h == HasID(w, F, Token(fromHost))
      d == IF h.val THEN DeleteByID(h, F, Token(fromHost)) ELSE h
  IN  IF d.err # "nil" THEN d
      ELSE AddRoute(d, F, ReverseProxyRoute(fromHost, toURL))

WildcardRoute(domain) ==
  Route("wildcard-" \o domain,
        <<RouteMatch(<<"*." \o domain>>, <<>>)>>,
        <<Handler("subroute", <<>>, <<>>)>>,
        TRUE)

AddWildcardRoute(w, F, domain) == AddRoute(w, F, WildcardRoute(domain))

\* SubRoute without the default of the host.
SubRouteRawHost(domain, subdomain, ports, host) ==
  LET routeID == subdomain \o "." \o domain
      upstreams == [i \in 1..Len(ports) |-> Upstream(host \o ":" \o ports[i])]
  IN  Route(routeID,
            <<RouteMatch(<<routeID>>, <<>>)>>,
            <<Handler("reverse_proxy", upstreams, <<>>)>>,
            FALSE)

SubRoute(domain, subdomain, ports, host0) ==
  LET routeID == subdomain \o "." \o domain
      host == IF host0 = "" THEN "localhost" ELSE host0
      upstreams == [i \in 1..Len(ports) |-> Upstream(host \o ":" \o ports[i])]
  IN  Route(routeID,
            <<RouteMatch(<<routeID>>, <<>>)>>,
            <<Handler("reverse_proxy", upstreams, <<>>)>>,
            FALSE)

\* AddSubReverseProxy that writes the nested list anew: the list is removed
\* and a list of the new child alone is stored.
AddSubReverseProxyOverwrite(w, F, domain, subdomain, ports, host) ==
  LET wildcardID == "wildcard-" \o domain
      listPath == Token(wildcardID) \o <<"/", "handle", "/", "0", "/", "routes">>
  IN  Only({ PutByID(d, F, Arr(<<SubRoute(domain, subdomain, ports, host)>>), listPath, "POST") :
             d \in {PutByID(w, F, Null, listPath, "DELETE")} })

AddSubReverseProxy(w, F, domain, subdomain, ports, host) ==
  LET wildcardID == "wildcard-" \o domain
      subroutePath == Token(wildcardID) \o <<"/", "handle", "/", "0", "/", "routes", "/", "...">>
  IN  PutByID(w, F, Arr(<<SubRoute(domain, subdomain, ports, host)>>), subroutePath, "POST")

\* strconv.Itoa
Digits == <<"0", "1", "2", "3", "4", "5", "6", "7", "8", "9">>

RECURSIVE Itoa(_)
Itoa(n) ==
  IF n < 0 THEN "-" \o Itoa(-n)
  ELSE IF n < 10 THEN Digits[n + 1]
  ELSE Itoa(n \div 10) \o Digits[(n % 10) + 1]

\* A Go value of dynamic type t: v is a string, an integer, a boolean, a
\* sequence, or for float64 the number in tenths.
Dyn(t, v) == [t |-> t, v |-> v]

\* int(p) of a float64 p: the fraction is dropped, towards zero.
FloatToInt(tenths) ==
  IF tenths >= 0 THEN tenths \div 10 ELSE -((-tenths) \div 10)

\* ElemStrings without the float64 case.
RECURSIVE ElemStringsNoFloat(_)
ElemStringsNoFloat(v) ==
  IF v = <<>> THEN <<>>
  ELSE LET p == Head(v)
           one == IF p.t = "string" THEN <<p.v>>
                  ELSE IF p.t = "int" THEN <<Itoa(p.v)>>
                  ELSE <<>>
       IN  one \o ElemStringsNoFloat(Tail(v))

\* The loop over a []interface{}: an element of any other type adds nothing.
RECURSIVE ElemStrings(_)
ElemStrings(v) ==
  IF v = <<>> THEN <<>>
  ELSE LET p == Head(v)
           one == IF p.t = "string" THEN <<p.v>>
                  ELSE IF p.t = "int" THEN <<Itoa(p.v)>>
                  ELSE IF p.t = "float64" THEN <<Itoa(FloatToInt(p.v))>>
                  ELSE <<>>
       IN  one \o ElemStrings(Tail(v))

\* The type switch: ok is FALSE in the default case.
PortList(ports) ==
  IF ports.t = "string" THEN [ok |-> TRUE, list |-> <<ports.v>>]
  ELSE IF ports.t = "int" THEN [ok |-> TRUE, list |-> <<Itoa(ports.v)>>]
  ELSE IF ports.t = "[]string" THEN [ok |-> TRUE, list |-> ports.v]
  ELSE IF ports.t = "[]int"
       THEN [ok |-> TRUE, list |-> [i \in 1..Len(ports.v) |-> Itoa(ports.v[i])]]
  ELSE IF ports.t = "[]interface{}" THEN [ok |-> TRUE, list |-> ElemStrings(ports.v)]
  ELSE [ok |-> FALSE, list |-> <<>>]

AddSubReverseProxyWithPorts(w, F, domain, subdomain, ports, host) ==
  LET pl == PortList(ports)
  IN  IF ~pl.ok THEN [w EXCEPT !.err = "unsupported"]
      ELSE AddSubReverseProxy(w, F, domain, subdomain, pl.list, host)

(***************************************************************************)
(* fastcaddy: SetupCaddy, and utils.GetCloudflareToken that reads the two  *)
(* environment variables env.caddy (CADDY_CF_TOKEN) and env.alt            *)
(* (CLOUDFLARE_API_TOKEN)                                                  *)
(***************************************************************************)
GetCloudflareToken(env) ==
  IF env.caddy # "" THEN env.caddy
  ELSE IF env.alt # "" THEN env.alt
  ELSE ""

\* The first step of SetupCaddy: the issuer, internal when local, ACME when
\* a token is given or found, none otherwise.
SetupIssuer(w, F, env, cfToken0, local) ==
  LET cfToken == IF cfToken0 = "" THEN GetCloudflareToken(env) ELSE cfToken0
  IN  IF local THEN AddTLSInternalConfig(w, F)
      ELSE IF cfToken # "" THEN AddACMEConfig(w, F, cfToken)
      ELSE [w EXCEPT !.err = "nil"]

DefaultServerName(serverName) == IF serverName = "" THEN "srv0" ELSE serverName

\* SetupCaddy that goes on to the routes when the PKI step failed.
SetupCaddyPastPKI(w, F, env, cfToken, serverName, local, installTrust) ==
  Only({ IF t.err # "nil" THEN t
         ELSE Only({ InitRoutes(p, F, DefaultServerName(serverName), 1) :
                     p \in {SetupPKITrust(t, F, installTrust)} }) :
         t \in {SetupIssuer(w, F, env, cfToken, local)} })

SetupCaddy(w, F, env, cfToken, serverName, local, installTrust) ==
  Only({ IF t.err # "nil" THEN t
         ELSE Only({ IF p.err # "nil" THEN p
                     ELSE InitRoutes(p, F, DefaultServerName(serverName), 1) :
                     p \in {SetupPKITrust(t, F, installTrust)} }) :
         t \in {SetupIssuer(w, F, env, cfToken, local)} })

(***************************************************************************)
(* Inputs                                                                  *)
(***************************************************************************)
Min(a, b) == IF a < b THEN a ELSE b

\* The failure patterns of a call that issues at most n requests.
FailSets(n) == {F \in SUBSET (1..Min(n, MaxReq)) : Cardinality(F) <= MaxFails}

InitPaths == {AutomationPath, ServersPath, <<"/", "apps", "/", "tls">>, <<"/", "apps">>}

Hosts == {"a.com", "b.com"}

Targets == {"127.0.0.1:3000", "127.0.0.1:4000"}

Domains == {"d.io"}

Subs == {"api"}

SubHosts == {"", "10.0.0.1"}

PortLists == {<<"9000">>, <<"8080", "8081">>}

PortHosts == {""}

\* The values given for ports, of differing dynamic types.
PortArgs ==
  << Dyn("string", "9000"),
     Dyn("int", 9000),
     Dyn("int", 0),
     Dyn("[]string", <<"8080", "8081">>),
     Dyn("[]int", <<8081, 8080>>),
     Dyn("[]interface{}", <<Dyn("string", "8080"), Dyn("int", 8081)>>),
     Dyn("[]interface{}", <<Dyn("float64", 80800), Dyn("string", "9000")>>),
     Dyn("[]interface{}", <<Dyn("float64", 80805)>>),
     Dyn("[]interface{}", <<Dyn("string", "8080"), Dyn("bool", TRUE)>>),
     Dyn("[]interface{}", <<Dyn("[]interface{}", <<Dyn("int", 8080)>>), Dyn("int", 8081)>>),
     Dyn("[]bool", <<TRUE>>),
     Dyn("bool", TRUE),
     Dyn("float64", 80800),
     Dyn("nil", 0) >>

ServerNames == {"srv0", "web"}

\* Maps, values and key sequences for NestedSetDict.
DictKeys == {"a", "b"}

Dicts ==
  { Null,
    EmptyObj,
    Obj("a" :> Str("old")),
    Obj("a" :> Null),
    Obj("a" :> Arr(<<Str("old")>>)),
    Obj(("a" :> Obj("b" :> Str("old"))) @@ ("b" :> Str("kept"))),
    Obj("a" :> Obj(("a" :> Obj("b" :> Str("old"))) @@ ("b" :> EmptyObj))) }

DictValues == {Str("new"), Null, EmptyObj, Obj("a" :> Str("new")), Arr(<<>>)}

KeySeqs == UNION {[1..n -> DictKeys] : n \in 0..MaxKeys}

Tokens == {"tok"}

\* The environment and the arguments of SetupCaddy: the two issuers, a token
\* given, taken from the environment or missing, the flag absent and
\* present, the server named and defaulted.
NoEnv == [caddy |-> "", alt |-> ""]

SetupArgs ==
  { [env |-> NoEnv, cfToken |-> "", serverName |-> "", local |-> TRUE,
     installTrust |-> "true"],
    [env |-> NoEnv, cfToken |-> "", serverName |-> "web", local |-> TRUE,
     installTrust |-> "nil"],
    [env |-> NoEnv, cfToken |-> "tok", serverName |-> "", local |-> FALSE,
     installTrust |-> "false"],
    [env |-> [caddy |-> "", alt |-> "alt"], cfToken |-> "", serverName |-> "web",
     local |-> FALSE, installTrust |-> "true"],
    [env |-> [caddy |-> "cf", alt |-> "alt"], cfToken |-> "", serverName |-> "",
     local |-> FALSE, installTrust |-> "nil"],
    [env |-> NoEnv, cfToken |-> "", serverName |-> "", local |-> FALSE,
     installTrust |-> "true"],
    [env |-> NoEnv, cfToken |-> "", serverName |-> "", local |-> FALSE,
     installTrust |-> "nil"] }

\* Path strings of up to MaxPathLen tokens over the separator and two chunks.
Chunks == {"a", "b"}

Paths ==
  {p \in UNION {[1..n -> Chunks \cup {"/"}] : n \in 0..MaxPathLen} :
     \A i \in 1..(Len(p) - 1) : p[i] = "/" \/ p[i + 1] = "/"}

RouteIDs == Hosts \cup {"wildcard-" \o d : d \in Domains}
              \cup {s \o "." \o d : s \in Subs, d \in Domains}

(***************************************************************************)
(* The state machine.  cfg is the remote tree; last records the last call  *)
(* of a handler: its name, its arguments, the error it returned, the       *)
(* requests it issued and the parity of the number of calls made so far;   *)
(* pure holds the last application of a pure function; callers holds, for  *)
(* each concurrent caller of AddReverseProxy, the step it is at.           *)
(***************************************************************************)
NoCall == [op |-> "none", args |-> <<>>, err |-> "nil", log |-> <<>>, n |-> 0]

NoPure == [fn |-> "none"]

Callers == {1, 2}

Idle == [pc |-> "idle", fromHost |-> "", toURL |-> "", present |-> FALSE, err |-> "nil"]

Init ==
  /\ cfg = EmptyObj
  /\ last = NoCall
  /\ pure = NoPure
  /\ callers = [c \in Callers |-> Idle]

RoutesKeys == PathToKeys(RoutesPath)

TopRoutes(tree) ==
  LET v == Lookup(tree, RoutesKeys) IN IF IsArr(v) THEN v.q ELSE <<>>

SubRoutes(route) ==
  LET v == Lookup(route, <<"handle", "0", "routes">>) IN IF IsArr(v) THEN v.q ELSE <<>>

RECURSIVE CountSubs(_)
CountSubs(routes) ==
  IF routes = <<>> THEN 0 ELSE Len(SubRoutes(Head(routes))) + CountSubs(Tail(routes))

\* The route lists stay within the bounds: MaxRoutes top-level routes and
\* MaxSubs nested routes in all.
Fits(tree) ==
  LET top == TopRoutes(tree)
  IN  Len(top) <= MaxRoutes /\ CountSubs(top) <= MaxSubs

\* One action per handler: the whole call, every request of it included.
\* FailSets(n) is given the most requests the handler issues.

\* The record of the call op(args) that ended in world w.
Called(op, args, w) ==
  [op |-> op, args |-> args, err |-> w.err, log |-> w.log, n |-> 1 - last.n]

InitPathCall ==
  \E path \in InitPaths, skip \in 0..MaxSkip, F \in FailSets(3) :
    \E w \in {InitPath(World(cfg), F, path, skip)} :
      /\ Fits(w.cfg)
      /\ cfg' = w.cfg
      /\ last' = Called("InitPath", <<path, skip>>, w)
      /\ UNCHANGED <<pure, callers>>

AddTLSInternalConfigCall ==
  \E F \in FailSets(6) :
    \E w \in {AddTLSInternalConfig(World(cfg), F)} :
      /\ Fits(w.cfg)
      /\ cfg' = w.cfg
      /\ last' = Called("AddTLSInternalConfig", <<>>, w)
      /\ UNCHANGED <<pure, callers>>

AddACMEConfigCall ==
  \E cfToken \in Tokens, F \in FailSets(6) :
    \E w \in {AddACMEConfig(World(cfg), F, cfToken)} :
      /\ Fits(w.cfg)
      /\ cfg' = w.cfg
      /\ last' = Called("AddACMEConfig", <<cfToken>>, w)
      /\ UNCHANGED <<pure, callers>>

SetupPKITrustCall ==
  \E installTrust \in {"nil", "true", "false"}, F \in FailSets(4) :
    \E w \in {SetupPKITrust(World(cfg), F, installTrust)} :
      /\ Fits(w.cfg)
      /\ cfg' = w.cfg
      /\ last' = Called("SetupPKITrust", <<installTrust>>, w)
      /\ UNCHANGED <<pure, callers>>

InitRoutesCall ==
  \E serverName \in ServerNames, skip \in 0..MaxSkip, F \in FailSets(5) :
    \E w \in {InitRoutes(World(cfg), F, serverName, skip)} :
      /\ Fits(w.cfg)
      /\ cfg' = w.cfg
      /\ last' = Called("InitRoutes", <<serverName, skip>>, w)
      /\ UNCHANGED <<pure, callers>>

DeleteByIDCall ==
  \E id \in RouteIDs, F \in FailSets(1) :
    \E w \in {DeleteByID(World(cfg), F, Token(id))} :
      /\ Fits(w.cfg)
      /\ cfg' = w.cfg
      /\ last' = Called("DeleteByID", <<id>>, w)
      /\ UNCHANGED <<pure, callers>>

AddReverseProxyCall ==
  \E fromHost \in Hosts, toURL \in Targets, F \in FailSets(3) :
    \E w \in {AddReverseProxy(World(cfg), F, fromHost, toURL)} :
      /\ Fits(w.cfg)
      /\ cfg' = w.cfg
      /\ last' = Called("AddReverseProxy", <<fromHost, toURL>>, w)
      /\ UNCHANGED <<pure, callers>>

AddWildcardRouteCall ==
  \E domain \in Domains, F \in FailSets(1) :
    \E w \in {AddWildcardRoute(World(cfg), F, domain)} :
      /\ Fits(w.cfg)
      /\ cfg' = w.cfg
      /\ last' = Called("AddWildcardRoute", <<domain>>, w)
      /\ UNCHANGED <<pure, callers>>

AddSubReverseProxyCall ==
  \E domain \in Domains, subdomain \in Subs, ports \in PortLists,
     host \in SubHosts, F \in FailSets(1) :
    \E w \in {AddSubReverseProxy(World(cfg), F, domain, subdomain, ports, host)} :
      /\ Fits(w.cfg)
      /\ cfg' = w.cfg
      /\ last' = Called("AddSubReverseProxy", <<domain, subdomain, ports, host>>, w)
      /\ UNCHANGED <<pure, callers>>

AddSubReverseProxyWithPortsCall ==
  \E domain \in Domains, subdomain \in Subs, k \in 1..Len(PortArgs),
     host \in PortHosts, F \in FailSets(1) :
    \E w \in {AddSubReverseProxyWithPorts(World(cfg), F, domain, subdomain, PortArgs[k], host)} :
      /\ Fits(w.cfg)
      /\ cfg' = w.cfg
      /\ last' = Called("AddSubReverseProxyWithPorts",
                         <<domain, subdomain, PortArgs[k], host>>, w)
      /\ UNCHANGED <<pure, callers>>

SetupCaddyCall ==
  \E a \in SetupArgs, F \in FailSets(14) :
    \E w \in {SetupCaddy(World(cfg), F, a.env, a.cfToken, a.serverName, a.local,
                          a.installTrust)} :
      /\ Fits(w.cfg)
      /\ cfg' = w.cfg
      /\ last' = Called("SetupCaddy", <<a>>, w)
      /\ UNCHANGED <<pure, callers>>

\* internal/routes: the route manager against the remote tree.
Next ==
  \/ InitRoutesCall
  \/ AddReverseProxyCall
  \/ AddWildcardRouteCall
  \/ AddSubReverseProxyCall
  \/ DeleteByIDCall

Spec == Init /\ [][Next]_vars

\* internal/tls and internal/config: the policy builder and the path
\* initializer against the remote tree.
NextTLS ==
  \/ AddTLSInternalConfigCall
  \/ AddACMEConfigCall
  \/ SetupPKITrustCall
  \/ InitPathCall

SpecTLS == Init /\ [][NextTLS]_vars

\* fastcaddy: the composed setup.
NextSetup ==
  \/ SetupCaddyCall

SpecSetup == Init /\ [][NextSetup]_vars

(***************************************************************************)
(* Two callers of AddReverseProxy on one client.  A caller's call is split *)
(* at its requests: the existence check, the delete, the append.  Each     *)
(* request is served in one step; every request is answered.  callers[c]   *)
(* holds the arguments of the call of c, the answer to its existence check *)
(* and the error it returned.  The route list is initialized once, on the  *)
(* empty configuration.                                                    *)
(***************************************************************************)
InitRoutesOnce ==
  /\ cfg = EmptyObj
  /\ \E w \in {InitRoutes(World(cfg), {}, "srv0", 0)} :
       /\ cfg' = w.cfg
       /\ last' = Called("InitRoutes", <<"srv0", 0>>, w)
       /\ UNCHANGED <<pure, callers>>

\* exists := HasID(fromHost)
UpsertProbe(c) ==
  /\ callers[c].pc = "idle"
  /\ \E fromHost \in Hosts, toURL \in Targets :
       \E w \in {HasID(World(cfg), {}, Token(fromHost))} :
         /\ cfg' = w.cfg
         /\ callers' = [callers EXCEPT ![c] =
                          [pc |-> IF w.val THEN "delete" ELSE "append",
                           fromHost |-> fromHost, toURL |-> toURL,
                           present |-> w.val, err |-> "nil"]]
         /\ UNCHANGED <<last, pure>>

\* if exists { DeleteByID(fromHost) }: an error ends the call.
UpsertDelete(c) ==
  /\ callers[c].pc = "delete"
  /\ \E w \in {DeleteByID(World(cfg), {}, Token(callers[c].fromHost))} :
       /\ cfg' = w.cfg
       /\ callers' = [callers EXCEPT ![c].pc = IF w.err # "nil" THEN "done" ELSE "append",
                                     ![c].err = w.err]
       /\ UNCHANGED <<last, pure>>

\* return AddRoute(route)
UpsertAppend(c) ==
  /\ callers[c].pc = "append"
  /\ \E w \in {AddRoute(World(cfg), {},
                         ReverseProxyRoute(callers[c].fromHost, callers[c].toURL))} :
       /\ Fits(w.cfg)
       /\ cfg' = w.cfg
       /\ callers' = [callers EXCEPT ![c].pc = "done", ![c].err = w.err]
       /\ UNCHANGED <<last, pure>>

\* The caller is free for its next call.
UpsertReturn(c) ==
  /\ callers[c].pc = "done"
  /\ callers' = [callers EXCEPT ![c] = Idle]
  /\ UNCHANGED <<cfg, last, pure>>

NextConc ==
  \/ InitRoutesOnce
  \/ \E c \in Callers : UpsertProbe(c)
  \/ \E c \in Callers : UpsertDelete(c)
  \/ \E c \in Callers : UpsertAppend(c)
  \/ \E c \in Callers : UpsertReturn(c)

SpecConc == Init /\ [][NextConc]_vars

(***************************************************************************)
(* Two callers of AddSubReverseProxy on one client.  The call is a single  *)
(* request, served in one step.  callers[c] holds the host the child of c  *)
(* matches (its ID), the first upstream it dials and the error returned.   *)
(***************************************************************************)
ConcSubs == {"api", "www", "old"}

\* The nested route list of the wildcard route of domain, as AddSubReverseProxy
\* addresses it by ID.
NestedRoutes(tree, domain) ==
  LET r == FindID(tree, "wildcard-" \o domain)
  IN  IF r = Absent THEN <<>>
      ELSE LET v == Lookup(tree, r.p \o <<"handle", "0", "routes">>)
           IN  IF IsArr(v) THEN v.q ELSE <<>>

SubAppend(c) ==
  /\ callers[c].pc = "idle"
  /\ \E domain \in Domains, subdomain \in ConcSubs, F \in FailSets(1) :
       \E w \in {AddSubReverseProxy(World(cfg), F, domain, subdomain, <<"9000">>, "")} :
         /\ \A d \in Domains : Len(NestedRoutes(w.cfg, d)) <= MaxConcSubs
         /\ cfg' = w.cfg
         /\ callers' = [callers EXCEPT ![c] =
                          [pc |-> "done", fromHost |-> subdomain \o "." \o domain,
                           toURL |-> "localhost:9000", present |-> FALSE,
                           err |-> w.err]]
         /\ UNCHANGED <<last, pure>>

NextSub ==
  \/ InitRoutesOnce
  \/ AddWildcardRouteCall
  \/ \E c \in Callers : SubAppend(c)
  \/ \E c \in Callers : UpsertReturn(c)

SpecSub == Init /\ [][NextSub]_vars

\* SetupCaddy on a tree that has no servers path, and the route additions
\* that follow it.
SetupCaddyFresh ==
  /\ ~Exists(cfg, PathToKeys(ServersPath))
  /\ \E a \in SetupArgs, F \in FailSets(14) :
       \E w \in {SetupCaddy(World(cfg), F, a.env, a.cfToken, a.serverName,
                            a.local, a.installTrust)} :
         /\ Fits(w.cfg)
         /\ cfg' = w.cfg
         /\ last' = Called("SetupCaddy", <<a>>, w)
         /\ UNCHANGED <<pure, callers>>

NextServer ==
  \/ SetupCaddyFresh
  \/ AddReverseProxyCall
  \/ AddWildcardRouteCall

SpecServer == Init /\ [][NextServer]_vars

\* The sub-route entry point that takes ports of any type.
NextPorts ==
  \/ InitRoutesCall
  \/ AddWildcardRouteCall
  \/ AddSubReverseProxyWithPortsCall

SpecPorts == Init /\ [][NextPorts]_vars

NestedSetDictCall ==
  \E dict \in Dicts, value \in DictValues, keys \in KeySeqs :
    /\ pure' = [fn |-> "NestedSetDict", dict |-> dict, value |-> value,
                 keys |-> keys, out |-> NestedSetDict(dict, value, keys)]
    /\ UNCHANGED <<cfg, last, callers>>

PathToKeysCall ==
  \E path \in Paths :
    /\ pure' = [fn |-> "PathToKeys", path |-> path, keys |-> PathToKeys(path)]
    /\ UNCHANGED <<cfg, last, callers>>

\* KeysToPath of the keys that PathToKeys returned last.
KeysToPathCall ==
  /\ pure.fn = "PathToKeys"
  /\ pure' = [fn |-> "KeysToPath", path |-> pure.path, keys |-> pure.keys,
               out |-> KeysToPath(pure.keys)]
  /\ UNCHANGED <<cfg, last, callers>>

\* internal/config: the pure functions.
NextPure ==
  \/ NestedSetDictCall
  \/ PathToKeysCall
  \/ KeysToPathCall

SpecPure == Init /\ [][NextPure]_vars

(***************************************************************************)
(* Reading the remote tree                                                 *)
(***************************************************************************)
\* The indices of the routes of a list that carry the ID.
WithID(routes, id) == {i \in 1..Len(routes) : OwnID(routes[i], id)}

ListAt(v, ks) == LET x == Lookup(v, ks) IN IF IsArr(x) THEN x.q ELSE <<>>

Dials(route) ==
  LET u == ListAt(route, <<"handle", "0", "upstreams">>)
  IN  [i \in 1..Len(u) |-> Lookup(u[i], <<"dial">>)]

Succeeded(call, op) == call.op = op /\ call.err = "nil"

(***************************************************************************)
(* C1  Route upsert replacement: AddReverseProxy(X, t1) followed by        *)
(* AddReverseProxy(X, t2), t2 # t1, both returning no error, leaves        *)
(* exactly one route with ID X in the route list, and its only upstream    *)
(* is t2.                                                                  *)
(***************************************************************************)
OneRouteTo(tree, X, t) ==
  LET top == TopRoutes(tree)
  IN  /\ Cardinality(WithID(top, X)) = 1
      /\ \A i \in WithID(top, X) : Dials(top[i]) = <<Str(t)>>

UpsertReplaces ==
  [][(/\ Succeeded(last, "AddReverseProxy")
      /\ Succeeded(last', "AddReverseProxy")
      /\ last'.args[1] = last.args[1]
      /\ last'.args[2] # last.args[2])
     => OneRouteTo(cfg', last'.args[1], last'.args[2])]_vars

(***************************************************************************)
(* C2  Route ID uniqueness: after any sequence of AddReverseProxy,         *)
(* AddWildcardRoute, AddSubReverseProxy and DeleteByID calls no two        *)
(* routes of the remote tree, top-level or nested, carry the same ID.      *)
(***************************************************************************)
RouteIDsUnique == \A id \in RouteIDs : CountID(cfg, id) <= 1

\* Its particular case: after AddWildcardRoute(d) returned no error one route
\* carries wildcard-<d>, and after AddSubReverseProxy(d, sub, ...) returned no
\* error one route carries <sub>.<d>.
ReAddRemovesOldOccupant ==
  /\ Succeeded(last, "AddWildcardRoute")
       => CountID(cfg, "wildcard-" \o last.args[1]) = 1
  /\ Succeeded(last, "AddSubReverseProxy")
       => CountID(cfg, last.args[2] \o "." \o last.args[1]) = 1

(***************************************************************************)
(* C6  Wildcard composition: from a route list without the wildcard        *)
(* route, AddWildcardRoute(d) then AddSubReverseProxy(d, sub, ports, host) *)
(* yields one top-level route wildcard-<d>, matching *.<d>, terminal, with *)
(* one subroute handler whose nested list holds exactly one entry; the     *)
(* entry has ID <sub>.<d>, matches host <sub>.<d>, and has one             *)
(* reverse_proxy handler whose upstreams are <host>:<port> in the order of *)
(* ports, host being localhost when given empty.                           *)
(***************************************************************************)
Composed(tree, d, sub, ports, host) ==
  LET top == TopRoutes(tree)
      W == WithID(top, "wildcard-" \o d)
      h == IF host = "" THEN "localhost" ELSE host
  IN  /\ Cardinality(W) = 1
      /\ \A i \in W :
           /\ Lookup(top[i], <<"match">>) = Arr(<<Obj("host" :> Arr(<<Str("*." \o d)>>))>>)
           /\ Lookup(top[i], <<"terminal">>) = Bool(TRUE)
           /\ Len(ListAt(top[i], <<"handle">>)) = 1
           /\ Lookup(top[i], <<"handle", "0", "handler">>) = Str("subroute")
           /\ LET nested == ListAt(top[i], <<"handle", "0", "routes">>)
              IN  /\ Len(nested) = 1
                  /\ Lookup(nested[1], <<"@id">>) = Str(sub \o "." \o d)
                  /\ Lookup(nested[1], <<"match">>)
                       = Arr(<<Obj("host" :> Arr(<<Str(sub \o "." \o d)>>))>>)
                  /\ Len(ListAt(nested[1], <<"handle">>)) = 1
                  /\ Lookup(nested[1], <<"handle", "0", "handler">>) = Str("reverse_proxy")
                  /\ Dials(nested[1]) = [j \in 1..Len(ports) |-> Str(h \o ":" \o ports[j])]

WildcardComposition ==
  [][(/\ Succeeded(last, "AddWildcardRoute")
      /\ CountID(cfg, "wildcard-" \o last.args[1]) = 1
      /\ Succeeded(last', "AddSubReverseProxy")
      /\ last'.args[1] = last.args[1])
     => Composed(cfg', last'.args[1], last'.args[2], last'.args[3], last'.args[4])]_vars

WildcardComposed ==
  /\ Succeeded(last, "AddSubReverseProxy")
  /\ last.args[4] = ""
  /\ Len(last.args[3]) = 2
  /\ Composed(cfg, last.args[1], last.args[2], last.args[3], last.args[4])

(***************************************************************************)
(* C3  InitPath(path, skip) writes an empty container at a level only if   *)
(* that level does not exist remotely: a level that exists before the call *)
(* is not written and what it holds beside the path is unchanged after     *)
(* the call.                                                               *)
(***************************************************************************)
Writes(log) == {i \in 1..Len(log) : log[i].m # "GET"}

\* The keys an object holds, none for any other value.
KeysOf(v) == IF IsObj(v) THEN DOMAIN v.f ELSE {}

InitPathWritesOnlyAbsentLevels ==
  [][last'.op = "InitPath" =>
       LET keys == PathToKeys(last'.args[1])
       IN  /\ \A i \in Writes(last'.log) : ~Exists(cfg, last'.log[i].keys)
           /\ \A i \in (last'.args[2] + 1)..Len(keys) :
                LET level == SubSeq(keys, 1, i)
                IN  \A key \in KeysOf(Lookup(cfg, level)) :
                      (i = Len(keys) \/ key # keys[i + 1])
                        => Lookup(cfg', Append(level, key)) = Lookup(cfg, Append(level, key))]_vars

(***************************************************************************)
(* C4  InitPath idempotence: a second InitPath(p, s) right after a first   *)
(* one that returned no error leaves the remote tree as the first call     *)
(* left it and issues no write request.                                    *)
(***************************************************************************)
InitPathIdempotent ==
  [][(/\ Succeeded(last, "InitPath")
      /\ last'.op = "InitPath"
      /\ last'.args = last.args)
     => (cfg' = cfg /\ Writes(last'.log) = {})]_vars

(***************************************************************************)
(* C5  First writer wins: once the automation path exists remotely, every  *)
(* later AddTLSInternalConfig or AddACMEConfig call issues no write and    *)
(* returns no error, and the policy list is left as it was.                *)
(***************************************************************************)
IssuerOps == {"AddTLSInternalConfig", "AddACMEConfig"}

AutomationKeys == PathToKeys(AutomationPath)

FirstWriterWins ==
  [][(last'.op \in IssuerOps /\ Exists(cfg, AutomationKeys))
     => (/\ last'.err = "nil"
         /\ Writes(last'.log) = {}
         /\ Lookup(cfg', Append(AutomationKeys, "policies"))
              = Lookup(cfg, Append(AutomationKeys, "policies")))]_vars

(***************************************************************************)
(* C7  Ambiguous existence is never treated as absent: when the existence  *)
(* check of AddTLSInternalConfig or AddACMEConfig ends in a transport      *)
(* failure, the call returns that failure and issues no write.             *)
(***************************************************************************)
ProbeFailureSurfaced ==
  (last.op \in IssuerOps /\ last.log[1].st = "transport")
    => (last.err = "transport" /\ Writes(last.log) = {})

(***************************************************************************)
(* C8  Port rejection: AddSubReverseProxyWithPorts returns the             *)
(* unsupported-port-type error and sends no request whenever ports is      *)
(* neither a string nor an integer nor a list, or is a list with an        *)
(* element that is neither a string nor an integer-like value.             *)
(***************************************************************************)
ListTypes == {"[]string", "[]int", "[]interface{}", "[]bool"}

ElementOK(t, e) ==
  IF t = "[]string" \/ t = "[]int" THEN TRUE
  ELSE IF t = "[]bool" THEN FALSE
  ELSE e.t \in {"string", "int", "float64"}

MustReject(ports) ==
  \/ ports.t \notin {"string", "int"} \cup ListTypes
  \/ /\ ports.t \in ListTypes
     /\ \E i \in 1..Len(ports.v) : ~ElementOK(ports.t, ports.v[i])

UnsupportedPortsRejected ==
  (last.op = "AddSubReverseProxyWithPorts" /\ MustReject(last.args[3]))
    => (last.err = "unsupported" /\ last.log = <<>>)

(***************************************************************************)
(* C9  Port normalization: for an accepted ports argument (one string,     *)
(* one integer, or a list of strings and integers) the ports handed to     *)
(* AddSubReverseProxy are as many as the input has elements, the i-th      *)
(* being the decimal string of the i-th input element; a whole-valued      *)
(* float element counts as its integer part.  Read from the upstreams of   *)
(* the child route the call appended.                                      *)
(***************************************************************************)
DecimalOf == (0 :> "0") @@ (8080 :> "8080") @@ (8081 :> "8081") @@ (9000 :> "9000")

\* The decimal string of one input element of dynamic type t.
Decimal(t, v) ==
  IF t = "string" THEN v
  ELSE IF t = "int" THEN DecimalOf[v]
  ELSE DecimalOf[v \div 10]

Accepted(ports) ==
  \/ ports.t \in {"string", "int", "[]string", "[]int"}
  \/ /\ ports.t = "[]interface{}"
     /\ \A i \in 1..Len(ports.v) :
          \/ ports.v[i].t \in {"string", "int"}
          \/ ports.v[i].t = "float64" /\ ports.v[i].v % 10 = 0

ExpectedPorts(ports) ==
  IF ports.t \in {"string", "int"} THEN <<Decimal(ports.t, ports.v)>>
  ELSE IF ports.t = "[]string" THEN [i \in 1..Len(ports.v) |-> Decimal("string", ports.v[i])]
  ELSE IF ports.t = "[]int" THEN [i \in 1..Len(ports.v) |-> Decimal("int", ports.v[i])]
  ELSE [i \in 1..Len(ports.v) |-> Decimal(ports.v[i].t, ports.v[i].v)]

\* The child route the last append put into the wildcard route of domain d.
AppendedChild(tree, d) ==
  LET top == TopRoutes(tree)
      W == WithID(top, "wildcard-" \o d)
      w == CHOOSE i \in W : \A j \in W : j <= i
      nested == SubRoutes(top[w])
  IN  nested[Len(nested)]

PortsAsGiven(call, tree) ==
  LET h == IF call.args[4] = "" THEN "localhost" ELSE call.args[4]
      e == ExpectedPorts(call.args[3])
  IN  Dials(AppendedChild(tree, call.args[1])) = [i \in 1..Len(e) |-> Str(h \o ":" \o e[i])]

PortNormalization ==
  (Succeeded(last, "AddSubReverseProxyWithPorts") /\ Accepted(last.args[3]))
    => PortsAsGiven(last, cfg)

MixedPortsNormalized ==
  /\ Succeeded(last, "AddSubReverseProxyWithPorts")
  /\ last.args[3].t = "[]interface{}"
  /\ Len(last.args[3].v) = 2
  /\ last.args[3].v[1].t = "float64"
  /\ last.args[3].v[2].t = "string"
  /\ PortsAsGiven(last, cfg)

(***************************************************************************)
(* C10  NestedSetDict lookup law: following a non-empty key sequence k     *)
(* key by key in NestedSetDict(r, v, k...) reaches exactly v whatever was  *)
(* on that path before, a non-container before the last key included;      *)
(* with no key the root is returned unchanged.                             *)
(***************************************************************************)
RECURSIVE Follow(_, _)
Follow(v, keys) ==
  IF keys = <<>> THEN v
  ELSE IF IsObj(v) /\ Head(keys) \in DOMAIN v.f THEN Follow(v.f[Head(keys)], Tail(keys))
  ELSE Absent

NestedSetDictLookup ==
  pure.fn = "NestedSetDict" =>
    IF pure.keys = <<>> THEN pure.out = pure.dict
    ELSE Follow(pure.out, pure.keys) = pure.value

NonContainerOverwritten ==
  /\ pure.fn = "NestedSetDict"
  /\ Len(pure.keys) >= 2
  /\ Follow(pure.dict, <<pure.keys[1]>>).k \in {"str", "arr"}
  /\ Follow(pure.out, pure.keys) = pure.value

(***************************************************************************)
(* C11  Path codec round trip: for every normalized path p (the root "/"   *)
(* or "/" followed by non-empty keys joined by single "/", no trailing     *)
(* separator) KeysToPath(PathToKeys(p)...) is p; PathToKeys returns the    *)
(* empty sequence for an empty or separator-only input, and KeysToPath of  *)
(* the empty sequence is "/".                                              *)
(***************************************************************************)
SeparatorOnly(p) == \A i \in 1..Len(p) : p[i] = "/"

Normalized(p) ==
  \/ p = <<"/">>
  \/ /\ Len(p) > 0
     /\ Len(p) % 2 = 0
     /\ \A i \in 1..Len(p) : (p[i] = "/") <=> (i % 2 = 1)

PathCodecRoundTrip ==
  /\ (pure.fn = "PathToKeys" /\ SeparatorOnly(pure.path)) => pure.keys = <<>>
  /\ (pure.fn = "KeysToPath" /\ pure.keys = <<>>) => pure.out = <<"/">>
  /\ (pure.fn = "KeysToPath" /\ Normalized(pure.path)) => pure.out = pure.path

TwoKeyPathRoundTripped ==
  /\ pure.fn = "KeysToPath"
  /\ Normalized(pure.path)
  /\ Len(pure.keys) = 2
  /\ pure.out = pure.path

(***************************************************************************)
(* C17  No empty key: for every input string, one with adjacent separators *)
(* such as "/a//b" included, the key sequence PathToKeys returns holds no  *)
(* empty string.                                                           *)
(***************************************************************************)
NoEmptyKey ==
  pure.fn = "PathToKeys" => \A i \in 1..Len(pure.keys) : pure.keys[i] # ""

(***************************************************************************)
(* C12  Trust-flag no-op: SetupPKITrust with an absent (nil) flag issues   *)
(* no request, returns no error and leaves the remote tree as it was;      *)
(* with a flag b and no error returned, the trust flag at the PKI local-CA *)
(* path is b afterwards.                                                   *)
(***************************************************************************)
TrustFlag(tree) == Lookup(tree, Append(PathToKeys(pkiPath), "install_trust"))

TrustFlagNoOp ==
  [][last'.op = "SetupPKITrust" =>
       /\ last'.args[1] = "nil"
            => (last'.log = <<>> /\ last'.err = "nil" /\ cfg' = cfg)
       /\ (last'.args[1] # "nil" /\ last'.err = "nil")
            => TrustFlag(cfg') = Bool(last'.args[1] = "true")]_vars

NilFlagKeepsTrust ==
  /\ Succeeded(last, "SetupPKITrust")
  /\ last.args[1] = "nil"
  /\ last.log = <<>>
  /\ TrustFlag(cfg) = Bool(TRUE)

(***************************************************************************)
(* C14  InitPath(path, skip) addresses no request to a sub-path of the     *)
(* first i+1 keys for i < skip; its requests target the sub-paths of       *)
(* skip+1 up to len(keys) keys in strictly increasing depth, a deeper      *)
(* level only after the request for the shallower one succeeded; with      *)
(* skip >= len(keys) it issues no request.                                 *)
(***************************************************************************)
InitPathRequestOrder ==
  last.op = "InitPath" =>
    LET keys == PathToKeys(last.args[1])
        skip == last.args[2]
        log == last.log
    IN  /\ \A i \in 1..Len(log) :
             /\ Len(log[i].keys) > skip
             /\ skip + i <= Len(keys)
             /\ log[i].keys = SubSeq(keys, 1, skip + i)
             /\ i < Len(log) => log[i].st = "ok"
        /\ skip >= Len(keys) => log = <<>>
        /\ (last.err = "nil" /\ skip < Len(keys)) => Len(log) = Len(keys) - skip

SkippedLevelNotAddressed ==
  /\ Succeeded(last, "InitPath")
  /\ last.args[2] = 1
  /\ Len(PathToKeys(last.args[1])) = 3
  /\ Len(last.log) = 2
  /\ last.log[1].keys = <<"apps", "tls">>

(***************************************************************************)
(* C15  InitPath failure is abort-without-rollback: when the request for   *)
(* a level fails, InitPath returns that error, issues no request for a     *)
(* deeper level, and the shallower levels it created earlier in the call   *)
(* are present in the remote tree.                                         *)
(***************************************************************************)
InitPathAbortsWithoutRollback ==
  last.op = "InitPath" =>
    LET log == last.log
        failed == {i \in 1..Len(log) : log[i].st # "ok"}
    IN  /\ last.err # "nil" <=> failed # {}
        /\ \A i \in failed :
             /\ last.err = log[i].st
             /\ \A j \in 1..Len(log) : Len(log[j].keys) <= Len(log[i].keys)
             /\ \A j \in 1..(i - 1) :
                  log[j].st = "ok" /\ Exists(cfg, log[j].keys)

InitPathAbortedMidway ==
  /\ last.op = "InitPath"
  /\ last.err = "transport"
  /\ Len(last.log) = 3
  /\ Lookup(cfg, last.log[2].keys) = EmptyObj
  /\ ~Exists(cfg, last.log[3].keys)

(***************************************************************************)
(* C19  AddTLSInternalConfig and AddACMEConfig modify only the TLS         *)
(* automation subtree: what the remote tree holds outside                  *)
(* /apps/tls/automation (the routing namespace under /apps/http and the    *)
(* PKI namespace under /apps/pki in particular) is the same after the call *)
(* as before it, whether or not the automation path existed.               *)
(***************************************************************************)
\* What v holds at the keys of an object other than key is the same in u.
SameBeside(u, v, key) ==
  \A other \in KeysOf(v) \ {key} :
    Lookup(u, <<other>>) = Lookup(v, <<other>>)

\* Stated for the calls whose existence check was answered.
IssuerSetupTouchesOnlyAutomation ==
  [][(last'.op \in IssuerOps /\ last'.log[1].st # "transport") =>
       \A i \in 1..Len(AutomationKeys) :
         LET level == SubSeq(AutomationKeys, 1, i - 1)
         IN  SameBeside(Lookup(cfg', level), Lookup(cfg, level), AutomationKeys[i])]_vars

(***************************************************************************)
(* C20  Retry of issuer setup completes the work: when a call of           *)
(* AddTLSInternalConfig or AddACMEConfig failed after InitPath created the *)
(* automation path and before the policy list was written, a later call of *)
(* the same function that returns no error leaves the policy list holding  *)
(* the single-issuer policy.                                               *)
(***************************************************************************)
CreatedAutomation(log) ==
  \E i \in 1..Len(log) :
    log[i].m = "POST" /\ log[i].keys = AutomationKeys /\ log[i].st = "ok"

IssuerOf(call) ==
  IF call.op = "AddTLSInternalConfig" THEN InternalIssuer
  ELSE GetACMEConfig(call.args[1])

RetryCompletesIssuerSetup ==
  [][(/\ last.op \in IssuerOps
      /\ last.err # "nil"
      /\ CreatedAutomation(last.log)
      /\ last'.op = last.op
      /\ last'.args = last.args
      /\ last'.err = "nil")
     => Lookup(cfg', Append(AutomationKeys, "policies")) = Policies(IssuerOf(last'))]_vars

(***************************************************************************)
(* C16  Upsert aborts on the first failure: when AddReverseProxy finds the *)
(* ID present and the delete of the occupant fails, it returns an error    *)
(* and issues no append, so the route list is as it was before the call;   *)
(* the append is issued only after the ID was found absent or its delete   *)
(* succeeded.                                                              *)
(***************************************************************************)
\* The first clause: a failed delete is the last request of the call.
AbortsOnFailedDelete(call, before, after) ==
  \A i \in 1..Len(call.log) :
    (call.log[i].m = "DELETE" /\ call.log[i].st # "ok")
      => /\ i = Len(call.log)
         /\ call.err # "nil"
         /\ TopRoutes(after) = TopRoutes(before)

\* The second clause: an append follows a successful delete unless no route
\* carried the ID when the call began.
AppendsOnlyWhenVacant(call, before) ==
  \A i \in 1..Len(call.log) :
    call.log[i].m = "POST"
      => \/ WithID(TopRoutes(before), call.args[1]) = {}
         \/ i > 1 /\ call.log[i - 1].m = "DELETE" /\ call.log[i - 1].st = "ok"

UpsertAbortsOnFirstFailure ==
  [][last'.op = "AddReverseProxy" =>
       /\ AbortsOnFailedDelete(last', cfg, cfg')
       /\ AppendsOnlyWhenVacant(last', cfg)]_vars

(***************************************************************************)
(* C13  SetupCaddy runs its steps in the order TLS issuer setup, PKI trust *)
(* setup, route initialization and stops at the first step that fails: it  *)
(* returns that step's error, issues no request of a later step, and the   *)
(* writes the earlier steps made are not rolled back.                      *)
(***************************************************************************)
\* The step a request belongs to, by the namespace it addresses: 3 for
\* /apps/http, 2 for /apps/pki, 1 for the root, /apps and /apps/tls.
StepOf(e) ==
  IF Len(e.keys) >= 2 /\ e.keys[1] = "apps" /\ e.keys[2] = "http" THEN 3
  ELSE IF Len(e.keys) >= 2 /\ e.keys[1] = "apps" /\ e.keys[2] = "pki" THEN 2
  ELSE 1

\* A step fails on a write: the answer to an existence check is a boolean.
SetupCaddyStopsAtFirstFailure ==
  last.op = "SetupCaddy" =>
    LET log == last.log
        n == Len(log)
    IN  /\ \A i \in 1..n : \A j \in i..n : StepOf(log[i]) <= StepOf(log[j])
        /\ \A i \in 1..n :
             (log[i].m # "GET" /\ log[i].st # "ok")
               => (i = n /\ last.err = log[i].st)
        /\ last.err # "nil"
             => (n > 0 /\ log[n].m # "GET" /\ log[n].st = last.err)
        /\ \A i \in 1..n :
             /\ log[i].m # "DELETE"
             /\ (log[i].m = "POST" /\ log[i].st = "ok") => Exists(cfg, log[i].keys)

SetupCaddyStoppedAtPKI ==
  /\ last.op = "SetupCaddy"
  /\ last.err # "nil"
  /\ StepOf(last.log[Len(last.log)]) = 2
  /\ \E i \in 1..Len(last.log) :
       /\ last.log[i].m = "POST"
       /\ last.log[i].keys = Append(AutomationKeys, "policies")
  /\ Exists(cfg, Append(AutomationKeys, "policies"))

(***************************************************************************)
(* C18  The existence check, the delete and the append of AddReverseProxy  *)
(* are not one atomic step: two callers that upsert the same ID, each      *)
(* having found the ID absent, both append, and the route list then holds  *)
(* two routes with that ID, not one.                                       *)
(***************************************************************************)
\* c and d ended calls for the same host without error, and neither found
\* the ID in its existence check.
BothAppended(c, d) ==
  /\ c # d
  /\ callers[c].pc = "done" /\ callers[d].pc = "done"
  /\ callers[c].err = "nil" /\ callers[d].err = "nil"
  /\ ~callers[c].present /\ ~callers[d].present
  /\ callers[c].fromHost = callers[d].fromHost

ConcurrentUpsertsDuplicate ==
  \A c, d \in Callers :
    BothAppended(c, d)
      => Cardinality(WithID(TopRoutes(cfg), callers[c].fromHost)) >= 2

TwoRoutesAfterConcurrentUpserts ==
  \E c, d \in Callers :
    /\ BothAppended(c, d)
    /\ callers[c].toURL # callers[d].toURL
    /\ LET top == TopRoutes(cfg)
           W == WithID(top, callers[c].fromHost)
       IN  /\ Cardinality(W) = 2
           /\ \E i, j \in W : /\ Dials(top[i]) = <<Str(callers[c].toURL)>>
                               /\ Dials(top[j]) = <<Str(callers[d].toURL)>>

(***************************************************************************)
(* C21  After SetupCaddy succeeded with server name S (srv0 when empty) on *)
(* a tree that had no servers path, the server entry created is the one    *)
(* named S, and a following AddReverseProxy or AddWildcardRoute appends    *)
(* its route to the route list of that server S.                           *)
(***************************************************************************)
ServersKeys == PathToKeys(ServersPath)

Answered(call) == \A i \in 1..Len(call.log) : call.log[i].st # "transport"

RoutesOf(tree, S) == ListAt(tree, ServersKeys \o <<S, "routes">>)

\* The ID of the route the call adds.
AddedID(call) ==
  IF call.op = "AddReverseProxy" THEN call.args[1] ELSE "wildcard-" \o call.args[1]

\* The call was a successful, fully answered SetupCaddy that created the
\* server entry.
SetUpServer(call) ==
  /\ call.op = "SetupCaddy"
  /\ call.err = "nil"
  /\ Answered(call)
  /\ \E i \in 1..Len(call.log) :
       /\ call.log[i].m = "POST"
       /\ Len(call.log[i].keys) = Len(ServersKeys) + 1
       /\ SubSeq(call.log[i].keys, 1, Len(ServersKeys)) = ServersKeys

ServerNameConsistency ==
  [][/\ (~Exists(cfg, ServersKeys) /\ SetUpServer(last'))
         => LET S == DefaultServerName(last'.args[1].serverName)
                servers == Lookup(cfg', ServersKeys)
            IN  IsObj(servers) /\ DOMAIN servers.f = {S}
     /\ (/\ SetUpServer(last)
         /\ last'.op \in {"AddReverseProxy", "AddWildcardRoute"}
         /\ Answered(last'))
         => LET S == DefaultServerName(last.args[1].serverName)
                routes == RoutesOf(cfg', S)
            IN  /\ last'.err = "nil"
                /\ \E i \in 1..Len(routes) : OwnID(routes[i], AddedID(last'))]_vars

(***************************************************************************)
(* C22  AddSubReverseProxy adds its child with one append request to the   *)
(* nested list of the wildcard route, so with two callers adding different *)
(* subdomains under the same wildcard route, in every interleaving both    *)
(* children are in the nested list at the end and the entries that were    *)
(* there before are kept.                                                  *)
(***************************************************************************)
HasChild(routes, id) == \E i \in 1..Len(routes) : OwnID(routes[i], id)

\* c made a call in this step and it returned nil.
Appended(c) ==
  callers[c].pc = "idle" /\ callers'[c].pc = "done" /\ callers'[c].err = "nil"

NoLostSubAppend ==
  [][\A d \in Domains :
       LET before == NestedRoutes(cfg, d)
           after == NestedRoutes(cfg', d)
       IN  /\ \A c \in Callers :
                Appended(c)
                  => /\ Len(after) = Len(before) + 1
                     /\ SubSeq(after, 1, Len(before)) = before
                     /\ OwnID(after[Len(after)], callers'[c].fromHost)
                     /\ Dials(after[Len(after)]) = <<Str(callers'[c].toURL)>>
           /\ Cardinality(WithID(TopRoutes(cfg'), "wildcard-" \o d)) = 1
                => \A c \in Callers :
                     (callers'[c].pc = "done" /\ callers'[c].err = "nil")
                       => HasChild(after, callers'[c].fromHost)]_vars

BothChildrenBesideOlder ==
  \E d \in Domains :
    LET nested == NestedRoutes(cfg, d)
    IN  /\ Cardinality(WithID(TopRoutes(cfg), "wildcard-" \o d)) = 1
        /\ callers[1].pc = "done" /\ callers[2].pc = "done"
        /\ callers[1].err = "nil" /\ callers[2].err = "nil"
        /\ callers[1].fromHost # callers[2].fromHost
        /\ Len(nested) = 3
        /\ ~OwnID(nested[1], callers[1].fromHost)
        /\ ~OwnID(nested[1], callers[2].fromHost)
        /\ HasChild(nested, callers[1].fromHost)
        /\ HasChild(nested, callers[2].fromHost)
====
